---- MODULE Spec2Model ----
(***************************************************************************)
(* The contract deployment script raiden_contracts/deploy/__main__.py:     *)
(* the click group `main` with its chained subcommands `raiden`, `token`   *)
(* and `register`, the ContractDeployer and the three pipeline functions.  *)
(* One run of the script is one behaviour: main, then click parses the     *)
(* chained subcommands, then each subcommand runs in order; every deploy   *)
(* or register step submits one transaction and blocks in                  *)
(* check_succesful_tx until the receipt is seen or the wait has elapsed.   *)
(***************************************************************************)
EXTENDS Integers, Sequences, FiniteSets, TLC

VARIABLES
    chain,              \* the chained subcommand names given on the command line
    gas_limit,          \* --gas-limit
    gas_price,          \* --gas-price
    wait,               \* --wait
    clientMines,        \* environment: does the client ever return a receipt
    balance,            \* environment: web3.eth.getBalance(owner)
    pc,                 \* position of the single thread of control
    error,              \* the error the run aborted with, "" while none
    ci,                 \* index in chain of the subcommand invoked next / running
    deployer,           \* ctx.obj['deployer']
    ctx_wait,           \* ctx.obj['wait']
    ctx,                \* ctx.obj['deployed_contracts']
    local,              \* the local dict deployed_contracts of a pipeline function
    opts,               \* the options of the subcommand that is running
    option_names,       \* names register stored from its address options so far
    steps,              \* one entry per deploy/register step of the run
    cur,                \* number of steps that have left PENDING
    tx,                 \* the transaction handed to the client last
    sent,               \* number of transactions handed to the client so far
    elapsed,            \* time waited so far inside check_succesful_tx
    nextId              \* the network's next contract address

vars == <<chain, gas_limit, gas_price, wait, clientMines, balance, pc, error, ci, deployer,
          ctx_wait, ctx, local, opts, option_names, steps, cur, tx, sent, elapsed, nextId>>

----------------------------------------------------------------------------
(* Bounds of the model *)
MaxChain == 3           \* longest chain of subcommands
MaxWait == 1            \* largest --wait
MaxSupply == 2          \* largest --token-supply
MaxDecimals == 2        \* largest --token-decimals
Balances == {0, 1}      \* the account balances tried
GasPrices == {0, 1}     \* the --gas-price values tried

(* Program constants *)
DefaultGasLimit == 5500000
RegisterGasLimit == 4000000
gwei == 1000000000
GasLimits == {RegisterGasLimit, DefaultGasLimit}

CONTRACT_ENDPOINT_REGISTRY == "EndpointRegistry"
CONTRACT_SECRET_REGISTRY == "SecretRegistry"
CONTRACT_TOKEN_NETWORK_REGISTRY == "TokenNetworkRegistry"
CONTRACT_CUSTOM_TOKEN == "CustomToken"
token_type == "CustomToken"
token_symbol == "TKN"
RaidenNames ==
    {CONTRACT_ENDPOINT_REGISTRY, CONTRACT_SECRET_REGISTRY, CONTRACT_TOKEN_NETWORK_REGISTRY}

Commands == {"raiden", "token", "register"}

----------------------------------------------------------------------------
(* Addresses.  A value is <<form, id>>: the same 20 bytes (id) can be      *)
(* written in lower case or in checksum case; None is Python's None and    *)
(* Malformed is a string that is no address.                               *)
None == <<"none", 0>>
Malformed == <<"malformed", 0>>
UserTokenId == 101
UserRegistryId == 102
Owner == <<"checksum", 0>>
PrivateKey == "private_key"

is_address(v) == v[1] \in {"lower", "checksum"}

to_checksum_address(v) == <<"checksum", v[2]>>

IsChecksummed(v) == v[1] = "checksum"

BadParameter == <<"BadParameter", 0>>

validate_address_unchecked(value) ==
    IF value = None THEN None
    ELSE IF ~is_address(value) THEN BadParameter
    ELSE value

validate_address(value) ==
    IF value = None THEN None
    ELSE IF ~is_address(value) THEN BadParameter
    ELSE to_checksum_address(value)

RawAddresses(id) == {None, Malformed, <<"lower", id>>, <<"checksum", id>>}

(* Python dicts: functions whose domain is the set of keys *)
EmptyDict == <<>>
SetItem(d, k, v) == (k :> v) @@ d
Update(d, e) == e @@ d

GetItem(d, k) == IF k \in DOMAIN d THEN d[k] ELSE None

----------------------------------------------------------------------------
(* The steps of a run, in pipeline order *)
StepsOf(cmd) ==
    CASE cmd = "raiden" ->
            <<CONTRACT_ENDPOINT_REGISTRY, CONTRACT_SECRET_REGISTRY,
              CONTRACT_TOKEN_NETWORK_REGISTRY>>
      [] cmd = "token" -> <<token_type>>
      [] cmd = "register" -> <<"register">>

RECURSIVE Plan(_)
Plan(c) == IF c = <<>> THEN <<>> ELSE StepsOf(Head(c)) \o Plan(Tail(c))

NewStep(name) == [name |-> name, status |-> "PENDING", address |-> None]

Chains == UNION {[1..n -> Commands] : n \in 1..MaxChain}

NetworkId == 1

WaitPcs == {"ep_wait", "sr_wait", "tnr_wait", "token_wait", "register_wait"}
DeployWaitPcs == WaitPcs \ {"register_wait"}

NoOpts ==
    [token_supply |-> 0, token_decimals |-> 0, token_address |-> None,
     registry_address |-> None]

NoTx ==
    [kind |-> "none", contract |-> "", to |-> None, args |-> <<>>, params |-> EmptyDict,
     signer |-> None]

NoDeployer ==
    [constructed |-> FALSE, transaction |-> EmptyDict, wait |-> 0, private_key |-> ""]

private_key_to_address(key) == Owner

(* ContractDeployer.__init__ *)
ContractDeployer(private_key, limit, price, w) ==
    [constructed |-> TRUE,
     transaction |->
        IF price # 0
        THEN SetItem(SetItem(SetItem(EmptyDict, "from", private_key_to_address(private_key)),
                             "gas_limit", limit), "gasPrice", price * gwei)
        ELSE SetItem(SetItem(EmptyDict, "from", private_key_to_address(private_key)),
                     "gas_limit", limit),
     wait |-> w,
     private_key |-> private_key]

Init ==
    /\ chain \in Chains
    /\ gas_limit \in GasLimits
    /\ gas_price \in GasPrices
    /\ wait \in 0..MaxWait
    /\ clientMines \in BOOLEAN
    /\ balance \in Balances
    /\ pc = "main"
    /\ error = ""
    /\ ci = 1
    /\ deployer = NoDeployer
    /\ ctx_wait = 0
    /\ ctx = EmptyDict
    /\ local = EmptyDict
    /\ opts = NoOpts
    /\ option_names = {}
    /\ steps = [i \in 1..Len(Plan(chain)) |-> NewStep(Plan(chain)[i])]
    /\ cur = 0
    /\ tx = NoTx
    /\ sent = 0
    /\ elapsed = 0
    /\ nextId = 1

Cli == <<chain, gas_limit, gas_price, wait, clientMines, balance>>

Fail(msg) ==
    /\ pc' = "failed"
    /\ error' = msg

(* main: the balance check, the deployer and the context object *)
HasFundsOrZero(b) == b >= 0

HasFunds(b) == b > 0

Main ==
    /\ pc = "main"
    /\ \E checksums_ok \in BOOLEAN :
        IF ~HasFunds(balance)
        THEN /\ Fail("Account with insuficient funds.")
             /\ UNCHANGED <<deployer, ctx_wait, ctx>>
        ELSE IF ~checksums_ok
        THEN /\ Fail("ChecksumMismatch")
             /\ UNCHANGED <<deployer, ctx_wait, ctx>>
        ELSE /\ deployer' = ContractDeployer(PrivateKey, gas_limit, gas_price, wait)
             /\ ctx' = EmptyDict
             /\ ctx_wait' = wait
             /\ pc' = "parse"
             /\ UNCHANGED error
    /\ UNCHANGED <<Cli, ci, local, opts, option_names, steps, cur, tx, sent, elapsed, nextId>>

(* click builds the context of every chained subcommand, running the option *)
(* callbacks, after main has returned and before the first subcommand runs. *)
ParseChain ==
    /\ pc = "parse"
    /\ \/ /\ \E i \in 1..Len(chain) : chain[i] = "register"
          /\ \E raw \in RawAddresses(UserTokenId) \cup RawAddresses(UserRegistryId) :
                validate_address(raw) = BadParameter
          /\ Fail("must be a valid ethereum address")
       \/ /\ pc' = "dispatch"
          /\ UNCHANGED error
    /\ UNCHANGED <<Cli, ci, deployer, ctx_wait, ctx, local, opts, option_names, steps,
                   cur, tx, sent, elapsed, nextId>>

----------------------------------------------------------------------------
(* ContractDeployer.deploy up to the transaction being sent *)
DeployTx(d, contract_name, args) ==
    [kind |-> "deploy", contract |-> contract_name, to |-> None, args |-> args,
     params |-> d.transaction, signer |-> private_key_to_address(d.private_key)]

Submit(t) ==
    /\ tx' = t
    /\ sent' = sent + 1
    /\ steps' = [steps EXCEPT ![cur + 1].status = "SUBMITTED"]
    /\ cur' = cur + 1
    /\ elapsed' = 0

(* deploy_raiden_contracts *)
DeployEndpointRegistry ==
    /\ pc = "dispatch"
    /\ ci <= Len(chain)
    /\ chain[ci] = "raiden"
    /\ local' = EmptyDict
    /\ opts' = NoOpts
    /\ Submit(DeployTx(deployer, CONTRACT_ENDPOINT_REGISTRY, <<>>))
    /\ pc' = "ep_wait"
    /\ UNCHANGED <<Cli, error, ci, deployer, ctx_wait, ctx, option_names, nextId>>

DeploySecretRegistry ==
    /\ pc = "sr_deploy"
    /\ Submit(DeployTx(deployer, CONTRACT_SECRET_REGISTRY, <<>>))
    /\ pc' = "sr_wait"
    /\ UNCHANGED <<Cli, error, ci, deployer, ctx_wait, ctx, local, opts, option_names,
                   nextId>>

TokenNetworkRegistryArgsFromEndpoint(deployed_contracts) ==
    <<GetItem(deployed_contracts, CONTRACT_ENDPOINT_REGISTRY), NetworkId,
      "DEPLOY_SETTLE_TIMEOUT_MIN", "DEPLOY_SETTLE_TIMEOUT_MAX">>

TokenNetworkRegistryArgs(deployed_contracts) ==
    <<GetItem(deployed_contracts, CONTRACT_SECRET_REGISTRY), NetworkId,
      "DEPLOY_SETTLE_TIMEOUT_MIN", "DEPLOY_SETTLE_TIMEOUT_MAX">>

DeployTokenNetworkRegistry ==
    /\ pc = "tnr_deploy"
    /\ Submit(DeployTx(deployer, CONTRACT_TOKEN_NETWORK_REGISTRY,
                       TokenNetworkRegistryArgs(local)))
    /\ pc' = "tnr_wait"
    /\ UNCHANGED <<Cli, error, ci, deployer, ctx_wait, ctx, local, opts, option_names,
                   nextId>>

(* raiden, after deploy_raiden_contracts has returned *)
RaidenReturn ==
    /\ pc = "raiden_ret"
    /\ ctx' = Update(ctx, local)
    /\ local' = EmptyDict
    /\ ci' = ci + 1
    /\ pc' = "dispatch"
    /\ UNCHANGED <<Cli, error, deployer, ctx_wait, opts, option_names, steps, cur,
                   tx, sent, elapsed, nextId>>


----------------------------------------------------------------------------
(* token: the supply scaled by the decimals *)
TokenSupplyArgUnscaled(token_supply, token_decimals) == token_supply

TokenSupplyArg(token_supply, token_decimals) == token_supply * 10 ^ token_decimals

(* token and deploy_token_contract up to the transaction being sent *)
Token ==
    /\ pc = "dispatch"
    /\ ci <= Len(chain)
    /\ chain[ci] = "token"
    /\ \E token_supply \in 1..MaxSupply, token_decimals \in 0..MaxDecimals :
        /\ opts' = [NoOpts EXCEPT !.token_supply = token_supply,
                                  !.token_decimals = token_decimals]
        /\ Submit(DeployTx(deployer, token_type,
                           <<TokenSupplyArg(token_supply, token_decimals), token_decimals,
                             CONTRACT_CUSTOM_TOKEN, token_symbol>>))
    /\ local' = EmptyDict
    /\ pc' = "token_wait"
    /\ UNCHANGED <<Cli, error, ci, deployer, ctx_wait, ctx, option_names, nextId>>

(* deploy_token_contract after deploy has returned, and the end of token *)
TokenReturn ==
    /\ pc = "token_ret"
    /\ LET token_address == GetItem(local, token_type) IN
        IF token_address # None /\ is_address(token_address)
        THEN /\ ctx' = Update(ctx, SetItem(EmptyDict, token_type,
                                           to_checksum_address(token_address)))
             /\ local' = EmptyDict
             /\ opts' = NoOpts
             /\ ci' = ci + 1
             /\ pc' = "dispatch"
             /\ UNCHANGED error
        ELSE /\ Fail("AssertionError")
             /\ UNCHANGED <<ctx, ci, local, opts>>
    /\ UNCHANGED <<Cli, deployer, ctx_wait, option_names, steps, cur, tx, sent,
                   elapsed, nextId>>

----------------------------------------------------------------------------
(* register: the address options are written into the context *)
RegisterContextKeepExisting(c, token_address, registry_address) ==
    LET c1 == IF token_address # None /\ token_type \notin DOMAIN c
              THEN SetItem(c, token_type, token_address) ELSE c
    IN  IF registry_address # None /\ CONTRACT_TOKEN_NETWORK_REGISTRY \notin DOMAIN c1
        THEN SetItem(c1, CONTRACT_TOKEN_NETWORK_REGISTRY, registry_address) ELSE c1

RegisterContext(c, token_address, registry_address) ==
    LET c1 == IF token_address # None THEN SetItem(c, token_type, token_address) ELSE c
    IN  IF registry_address # None
        THEN SetItem(c1, CONTRACT_TOKEN_NETWORK_REGISTRY, registry_address) ELSE c1

(* register: the two assertions *)
RegisterAssertsRegistryOnly(c) == CONTRACT_TOKEN_NETWORK_REGISTRY \in DOMAIN c

RegisterAsserts(c) ==
    /\ CONTRACT_TOKEN_NETWORK_REGISTRY \in DOMAIN c
    /\ token_type \in DOMAIN c

(* register_token_network up to the transaction being sent *)
RegisterTx(private_key, token_registry_address, token_address, limit) ==
    [kind |-> "call", contract |-> "createERC20TokenNetwork",
     to |-> token_registry_address, args |-> <<token_address>>,
     params |-> SetItem(EmptyDict, "gas_limit", limit),
     signer |-> private_key_to_address(private_key)]

Register ==
    /\ pc = "dispatch"
    /\ ci <= Len(chain)
    /\ chain[ci] = "register"
    /\ \E raw_token \in RawAddresses(UserTokenId),
          raw_registry \in RawAddresses(UserRegistryId) :
        LET token_address == validate_address(raw_token)
            registry_address == validate_address(raw_registry)
            c == RegisterContext(ctx, token_address, registry_address)
        IN  /\ token_address # BadParameter
            /\ registry_address # BadParameter
            /\ opts' = [NoOpts EXCEPT !.token_address = token_address,
                                      !.registry_address = registry_address]
            /\ ctx' = c
            /\ option_names' = option_names
                    \cup (IF token_address # None THEN {token_type} ELSE {})
                    \cup (IF registry_address # None
                          THEN {CONTRACT_TOKEN_NETWORK_REGISTRY} ELSE {})
            /\ IF RegisterAsserts(c)
               THEN /\ Submit(RegisterTx(deployer.private_key,
                                         GetItem(c, CONTRACT_TOKEN_NETWORK_REGISTRY),
                                         GetItem(c, token_type), RegisterGasLimit))
                    /\ pc' = "register_wait"
                    /\ UNCHANGED error
               ELSE /\ Fail("AssertionError")
                    /\ UNCHANGED <<steps, cur, tx, sent, elapsed>>
    /\ UNCHANGED <<Cli, ci, deployer, ctx_wait, local, nextId>>

(* register_token_network after the receipt: the network address is read and printed *)
RegisterReturn ==
    /\ pc = "register_ret"
    /\ opts' = NoOpts
    /\ ci' = ci + 1
    /\ pc' = "dispatch"
    /\ UNCHANGED <<Cli, error, deployer, ctx_wait, ctx, local, option_names, steps,
                   cur, tx, sent, elapsed, nextId>>

(* the chain is exhausted: the process exits with status 0 *)
Finish ==
    /\ pc = "dispatch"
    /\ ci > Len(chain)
    /\ pc' = "done"
    /\ UNCHANGED <<Cli, error, ci, deployer, ctx_wait, ctx, local, opts, option_names,
                   steps, cur, tx, sent, elapsed, nextId>>


----------------------------------------------------------------------------
(* check_succesful_tx: the wait for the receipt of the transaction sent last *)
ContractAt(p) ==
    CASE p = "ep_wait" -> CONTRACT_ENDPOINT_REGISTRY
      [] p = "sr_wait" -> CONTRACT_SECRET_REGISTRY
      [] p = "tnr_wait" -> CONTRACT_TOKEN_NETWORK_REGISTRY
      [] p = "token_wait" -> token_type
      [] OTHER -> "register"

AfterReceipt(p) ==
    CASE p = "ep_wait" -> "sr_deploy"
      [] p = "sr_wait" -> "tnr_deploy"
      [] p = "tnr_wait" -> "raiden_ret"
      [] p = "token_wait" -> "token_ret"
      [] OTHER -> "register_ret"

(* the timeout is an exception nothing catches *)
AfterTimeoutRetry(p) ==
    CASE p = "sr_wait" -> "sr_deploy"
      [] p = "tnr_wait" -> "tnr_deploy"
      [] OTHER -> "dispatch"

AfterTimeoutKeepWaiting(p) == p

AfterTimeout(p) == "failed"

(* the wait deploy hands to check_succesful_tx *)
WaitArgLonger(d) == d.wait + 1

WaitArg(d) == d.wait

WaitFor(p) == IF p = "register_wait" THEN ctx_wait ELSE WaitArg(deployer)

WaitExpired(waited, timeout) == waited >= timeout

(* receipt['contractAddress'] of the n-th contract created on the network; the *)
(* client formats the addresses of a receipt in checksum case.                 *)
ContractAddress(n) == <<"checksum", n>>

(* where the address deploy returns is stored: the local dict, not the context *)
CtxAfterDeployStored(c, name, address) == SetItem(c, name, address)

CtxAfterDeploy(c, name, address) == c

ReceiptMined ==
    /\ pc \in WaitPcs
    /\ clientMines
    /\ LET address == IF pc \in DeployWaitPcs THEN ContractAddress(nextId) ELSE None IN
        /\ steps' = [steps EXCEPT ![cur] = [@ EXCEPT !.status = "MINED",
                                                       !.address = address]]
        /\ IF pc \in DeployWaitPcs
           THEN /\ nextId' = nextId + 1
                /\ local' = SetItem(local, ContractAt(pc), address)
                /\ ctx' = CtxAfterDeploy(ctx, ContractAt(pc), address)
           ELSE UNCHANGED <<nextId, local, ctx>>
    /\ pc' = AfterReceipt(pc)
    /\ elapsed' = 0
    /\ UNCHANGED <<Cli, error, ci, deployer, ctx_wait, opts, option_names, cur, tx, sent>>

ReceiptWait ==
    /\ pc \in WaitPcs
    /\ ~WaitExpired(elapsed, WaitFor(pc))
    /\ elapsed' = elapsed + 1
    /\ UNCHANGED <<Cli, pc, error, ci, deployer, ctx_wait, ctx, local, opts, option_names,
                   steps, cur, tx, sent, nextId>>

ReceiptTimeout ==
    /\ pc \in WaitPcs
    /\ WaitExpired(elapsed, WaitFor(pc))
    /\ steps' = [steps EXCEPT ![cur].status = "TIMED_OUT"]
    /\ error' = "TransactionTimeout"
    /\ pc' = AfterTimeout(pc)
    /\ UNCHANGED <<Cli, ci, deployer, ctx_wait, ctx, local, opts, option_names, cur, tx, sent,
                   elapsed, nextId>>

----------------------------------------------------------------------------
Next ==
    \/ Main
    \/ ParseChain
    \/ DeployEndpointRegistry
    \/ DeploySecretRegistry
    \/ DeployTokenNetworkRegistry
    \/ RaidenReturn
    \/ Token
    \/ TokenReturn
    \/ Register
    \/ RegisterReturn
    \/ Finish
    \/ ReceiptMined
    \/ ReceiptWait
    \/ ReceiptTimeout

Spec == Init /\ [][Next]_vars

(* the script is one thread that always takes its next step *)
FairSpec == Init /\ [][Next]_vars /\ WF_vars(Next)

TypeOK ==
    /\ pc \in {"main", "parse", "dispatch", "sr_deploy", "tnr_deploy", "raiden_ret",
               "token_ret", "register_ret", "done", "failed"} \cup WaitPcs
    /\ cur \in 0..Len(steps)
    /\ sent = cur
    /\ elapsed \in 0..MaxWait


----------------------------------------------------------------------------
(* Helpers of the properties *)
StatusOf(i) == steps[i].status

CommandRuns(cmd) == pc = "dispatch" /\ ci <= Len(chain) /\ chain[ci] = cmd

Max(S) == CHOOSE m \in S : \A n \in S : n <= m

(* the address returned by the latest mined step for `name` before the current step *)
LastAddress(name) ==
    LET I == {i \in 1..(cur - 1) : steps[i].name = name /\ StatusOf(i) = "MINED"}
    IN  IF I = {} THEN None ELSE steps[Max(I)].address

RECURSIVE Shift(_, _)
Shift(n, places) == IF places = 0 THEN n ELSE Shift(10 * n, places - 1)

SameGas(params, configured) ==
    \A k \in {"gas_limit", "gasPrice"} :
        /\ k \in DOMAIN params <=> k \in DOMAIN configured
        /\ k \in DOMAIN params /\ k \in DOMAIN configured => params[k] = configured[k]

----------------------------------------------------------------------------
(* C1: whenever the transaction sent last deploys the token-network-registry, the   *)
(* two steps before it are the endpoint-registry and then the secret-registry, both *)
(* mined, and the first constructor argument is the address the secret-registry     *)
(* step returned.                                                                   *)
C1_RegistryGetsSecretRegistryAddress ==
    tx.kind = "deploy" /\ tx.contract = CONTRACT_TOKEN_NETWORK_REGISTRY =>
        /\ cur >= 3
        /\ steps[cur].name = CONTRACT_TOKEN_NETWORK_REGISTRY
        /\ steps[cur - 1].name = CONTRACT_SECRET_REGISTRY
        /\ steps[cur - 2].name = CONTRACT_ENDPOINT_REGISTRY
        /\ StatusOf(cur - 1) = "MINED"
        /\ StatusOf(cur - 2) = "MINED"
        /\ steps[cur - 1].address # None
        /\ tx.args[1] = steps[cur - 1].address

C1_Witness ==
    /\ tx.kind = "deploy"
    /\ tx.contract = CONTRACT_TOKEN_NETWORK_REGISTRY
    /\ StatusOf(cur) = "MINED"
    /\ cur > 3

(* C2: a step only ever moves PENDING -> SUBMITTED -> MINED or TIMED_OUT; once a    *)
(* step has timed out no transaction is sent and no step changes any more; and the  *)
(* number of transactions sent is the number of steps that have left PENDING.       *)
C2_TimeoutHaltsRun ==
    [][ /\ \A i \in DOMAIN steps :
            StatusOf(i) # steps'[i].status =>
                <<StatusOf(i), steps'[i].status>> \in
                    {<<"PENDING", "SUBMITTED">>, <<"SUBMITTED", "MINED">>,
                     <<"SUBMITTED", "TIMED_OUT">>}
        /\ (\E i \in DOMAIN steps : StatusOf(i) = "TIMED_OUT") =>
                /\ sent' = sent
                /\ tx' = tx
                /\ steps' = steps
                /\ pc' = "failed"
        /\ sent' = Cardinality({i \in DOMAIN steps : steps'[i].status # "PENDING"})
      ]_vars

C2_Witness ==
    /\ pc = "failed"
    /\ cur > 1
    /\ cur < Len(steps)
    /\ StatusOf(cur) = "TIMED_OUT"
    /\ StatusOf(cur - 1) = "MINED"
    /\ StatusOf(cur + 1) = "PENDING"

(* C3: when the run has succeeded the context holds exactly the three raiden names  *)
(* if raiden ran, the token type if token ran, and the names register was given as  *)
(* address options, each mapped to a checksummed address; and every step changes    *)
(* the names of the context by exactly what its subcommand adds.                    *)
ExpectedNames ==
    (IF \E i \in 1..Len(chain) : chain[i] = "raiden" THEN RaidenNames ELSE {})
    \cup (IF \E i \in 1..Len(chain) : chain[i] = "token" THEN {token_type} ELSE {})
    \cup option_names

C4_RegisterAsserts ==
    [][ CommandRuns("register")
        /\ ~(CONTRACT_TOKEN_NETWORK_REGISTRY \in DOMAIN ctx' /\ token_type \in DOMAIN ctx')
        => /\ pc' = "failed"
           /\ error' = "AssertionError"
           /\ sent' = sent
           /\ tx' = tx
           /\ steps' = steps ]_vars

C4_Witness ==
    /\ pc = "failed"
    /\ error = "AssertionError"
    /\ chain[ci] = "register"
    /\ CONTRACT_TOKEN_NETWORK_REGISTRY \in DOMAIN ctx
    /\ token_type \notin DOMAIN ctx
    /\ StatusOf(cur + 1) = "PENDING"

(* C5: in a run whose account balance is zero the deployer is never constructed, no *)
(* transaction is sent, every step stays PENDING, and the run can only be before    *)
(* the balance check or aborted with the insufficient-funds error.                  *)
C5_ZeroBalanceAborts ==
    balance = 0 =>
        /\ ~deployer.constructed
        /\ sent = 0
        /\ tx = NoTx
        /\ \A i \in DOMAIN steps : StatusOf(i) = "PENDING"
        /\ pc \in {"main", "failed"}
        /\ pc = "failed" => error = "Account with insuficient funds."

C5_Witness ==
    /\ balance = 0
    /\ pc = "failed"
    /\ Len(steps) > 0

(* C6: every transaction sent in a run is signed by the deployer's account and      *)
(* carries the gas limit and the gas price the deployer was constructed with.       *)
C6_SameTransactionParameters ==
    sent > 0 =>
        /\ tx.signer = private_key_to_address(deployer.private_key)
        /\ SameGas(tx.params, deployer.transaction)

(* C7: with a wait of 0 and a client that never returns a receipt, a deploy that    *)
(* has sent its transaction ends in the run failing with the timeout error, and no  *)
(* step of such a run ever gets an address.                                         *)
C7_ZeroWaitTimesOut ==
    /\ (pc \in DeployWaitPcs /\ deployer.wait = 0 /\ ~clientMines)
            ~> (pc = "failed" /\ error = "TransactionTimeout")
    /\ [](deployer.constructed /\ deployer.wait = 0 /\ ~clientMines =>
            /\ \A i \in DOMAIN steps : steps[i].address = None
            /\ local = EmptyDict
            /\ pc \notin {"sr_deploy", "tnr_deploy", "raiden_ret", "token_ret"})

C7_Witness ==
    /\ pc = "failed"
    /\ error = "TransactionTimeout"
    /\ deployer.wait = 0
    /\ ~clientMines
    /\ tx.kind = "deploy"
    /\ StatusOf(1) = "TIMED_OUT"

(* C8: while the token step runs, the transaction sent carries the supply option    *)
(* shifted left by `decimals` decimal places as its first constructor argument and  *)
(* the decimals option unchanged as its second.                                     *)
C8_TokenSupplyScaled ==
    pc \in {"token_wait", "token_ret"} =>
        /\ tx.kind = "deploy"
        /\ tx.contract = token_type
        /\ tx.args[1] = Shift(opts.token_supply, opts.token_decimals)
        /\ tx.args[2] = opts.token_decimals

C8_Witness ==
    /\ pc = "token_ret"
    /\ opts.token_supply = MaxSupply
    /\ opts.token_decimals = MaxDecimals
    /\ tx.args[1] > MaxSupply

(* C9: the register transaction goes to the registry address and carries the token  *)
(* address that the context holds at that moment; an address option, when given, is *)
(* that address; without the option, and with no option given earlier in the run,   *)
(* it is the address the latest earlier raiden or token step returned.              *)
C9_RegisterUsesContext ==
    pc \in {"register_wait", "register_ret"} =>
        /\ tx.kind = "call"
        /\ tx.to = ctx[CONTRACT_TOKEN_NETWORK_REGISTRY]
        /\ tx.args = <<ctx[token_type]>>
        /\ opts.registry_address # None => tx.to = opts.registry_address
        /\ opts.token_address # None => tx.args[1] = opts.token_address
        /\ CONTRACT_TOKEN_NETWORK_REGISTRY \notin option_names =>
                tx.to = LastAddress(CONTRACT_TOKEN_NETWORK_REGISTRY)
        /\ token_type \notin option_names => tx.args[1] = LastAddress(token_type)

C9_Witness ==
    /\ pc = "register_ret"
    /\ chain = <<"raiden", "token", "register">>
    /\ opts.registry_address # None
    /\ opts.token_address = None
    /\ tx.args[1] = LastAddress(token_type)
    /\ tx.to # LastAddress(CONTRACT_TOKEN_NETWORK_REGISTRY)

(* C10: while raiden runs, no step changes the context except the last one, which   *)
(* is taken only when the three deploy steps are mined and stores the three         *)
(* addresses they returned; a failure inside raiden leaves the context as it was.   *)
InRaiden ==
    \/ CommandRuns("raiden")
    \/ pc \in {"ep_wait", "sr_deploy", "sr_wait", "tnr_deploy", "tnr_wait", "raiden_ret"}

C10_RaidenAllOrNothing ==
    [][ InRaiden =>
            IF pc = "raiden_ret"
            THEN /\ \A i \in {cur - 2, cur - 1, cur} :
                        /\ StatusOf(i) = "MINED"
                        /\ steps[i].name \in RaidenNames
                        /\ ctx'[steps[i].name] = steps[i].address
                 /\ \A n \in DOMAIN ctx' \ RaidenNames : n \in DOMAIN ctx /\ ctx'[n] = ctx[n]
            ELSE ctx' = ctx ]_vars

C10_Witness ==
    /\ pc = "failed"
    /\ error = "TransactionTimeout"
    /\ steps[cur].name = CONTRACT_TOKEN_NETWORK_REGISTRY
    /\ StatusOf(cur - 1) = "MINED"
    /\ token_type \in DOMAIN ctx
    /\ CONTRACT_SECRET_REGISTRY \notin DOMAIN ctx

====
